---------------------------- MODULE Spec2Model ----------------------------
(***************************************************************************)
(* Task service (src/Task_Service/main.py) of the two-service task         *)
(* tracking backend, with the User service it calls over HTTP.             *)
(*                                                                         *)
(* The task table is a sequence of rows in rowid order.  Every request     *)
(* handler is one action; it leaves its answer in resp, together with the  *)
(* request and the outcome of the peer call made while handling it, and    *)
(* the client takes the answer from there.                                 *)
(***************************************************************************)
EXTENDS Integers, Sequences, FiniteSets, TLC

(***************************************************************************)
(* Bounds of the model.                                                    *)
(***************************************************************************)
MaxUserId == 4        \* user ids are 1..MaxUserId
MaxTasks == 4         \* rows in the task table
MaxId == 4            \* largest task id handed out
MaxList == 2          \* length of a task_ids list

(***************************************************************************)
(* Program constants.                                                      *)
(***************************************************************************)
RecentLimit == 5      \* .limit(5)
TopLimit == 3         \* most_common(3)

UserIds == 1..MaxUserId
TaskIds == 1..MaxId
ValidTitle == "task"
NoValue == "None"     \* Python None / JSON null

VARIABLES
    rows,        \* the Task table: sequence of [id, title, user_id], ascending id
    users,       \* the User service's table: the set of stored user ids
    maxIssued,   \* history: largest id returned so far by a successful POST /tasks
    resp,        \* the request just handled and its answer, until the client takes it
    statsReq,    \* a GET /tasks/stats being handled step by step: its place and locals
    createReq,   \* a POST /tasks being handled step by step: its place and locals
    seen         \* history: the tables there have been since statsReq was accepted

vars == <<rows, users, maxIssued, resp, statsReq, createReq, seen>>

(***************************************************************************)
(* Sequence helpers.                                                       *)
(***************************************************************************)
Min(a, b) == IF a < b THEN a ELSE b

Range(s) == {s[i] : i \in DOMAIN s}

RECURSIVE Reverse(_)
Reverse(s) == IF s = <<>> THEN <<>> ELSE Append(Reverse(Tail(s)), Head(s))

Take(s, n) == SubSeq(s, 1, Min(n, Len(s)))

RowIds(rs) == {rs[i].id : i \in DOMAIN rs}

Owners(rs) == {rs[i].user_id : i \in DOMAIN rs}

OwnedBy(rs, u) == Cardinality({i \in DOMAIN rs : rs[i].user_id = u})

(***************************************************************************)
(* Record store: the Task model on SQLite.                                 *)
(***************************************************************************)
\* Task.id is an INTEGER PRIMARY KEY without AUTOINCREMENT: SQLite gives a
\* new row the largest rowid in the table plus one, 1 for an empty table.
NextId(rs) == IF rs = <<>> THEN 1 ELSE rs[Len(rs)].id + 1

\* db.session.add(task); db.session.commit()
Insert(rs, title, user_id) ==
    Append(rs, [id |-> NextId(rs), title |-> title, user_id |-> user_id])

\* Task.query.get(task_id): is there a row with that primary key
HasRow(rs, task_id) == task_id \in RowIds(rs)

\* the table without the rows whose id is in ids
Without(rs, ids) == SelectSeq(rs, LAMBDA r : r.id \notin ids)

\* [{'id': t.id, 'title': t.title, 'user_id': t.user_id} for t in tasks]
Serialize(rs) ==
    [i \in DOMAIN rs |->
        [id |-> rs[i].id, title |-> rs[i].title, user_id |-> rs[i].user_id]]


(***************************************************************************)
(* Request bodies (request.get_json()).  A JSON object is a record; a key  *)
(* the object does not carry is outside its DOMAIN.  EmptyBody is both a   *)
(* missing body and {}: `not data` holds of either.                        *)
(***************************************************************************)
EmptyBody == << >>

TaskBodies ==
    {EmptyBody}
        \cup [title : {"", ValidTitle}]
        \cup [user_id : 0..MaxUserId]
        \cup [title : {"", ValidTitle}, user_id : 0..MaxUserId]

\* a JSON value for task_ids: a list of ids, or something that is no list
IdLists == UNION {[1..n -> TaskIds] : n \in 0..MaxList}

CleanupBodies ==
    {EmptyBody}
        \cup {[task_ids |-> [type |-> "list", val |-> l]] : l \in IdLists}
        \cup {[task_ids |-> [type |-> "int", val |-> <<1>>]]}

(***************************************************************************)
(* Peer client: requests.get against the User service.  A call either      *)
(* raises (connection error, timeout) or is answered with a status code.   *)
(***************************************************************************)
Transport == {"answered", "status500", "conn_error", "timeout"}

NoCall == [outcome |-> "none", status_code |-> 0, count |-> 0]

Raised(peer) == peer.outcome \in {"conn_error", "timeout"}

\* no answer is on its way to the client: the next request can come in
NoRequest ==
    [op |-> "none", req |-> EmptyBody, peer |-> NoCall, status |-> 0, body |-> EmptyBody]

Idle == resp = NoRequest

\* User service, GET /users/<id>: 200 for a stored user, 404 otherwise
UserServiceGetUser(us, user_id) == IF user_id \in us THEN 200 ELSE 404

\* User service, GET /users: 200 with the list of the stored users
UserServiceListUsers(us) == [status_code |-> 200, count |-> Cardinality(us)]

\* requests.get(f'http://localhost:5001/users/{data["user_id"]}')
VerifyUserCall(us, user_id, t) ==
    CASE t = "answered" ->
            [outcome |-> t, status_code |-> UserServiceGetUser(us, user_id), count |-> 0]
      [] t = "status500" -> [outcome |-> "answered", status_code |-> 500, count |-> 0]
      [] OTHER -> [outcome |-> t, status_code |-> 0, count |-> 0]

\* requests.get('http://localhost:5001/users', timeout=2)
UserCountCall(us, t) ==
    CASE t = "answered" ->
            [outcome |-> t, status_code |-> UserServiceListUsers(us).status_code,
             count |-> UserServiceListUsers(us).count]
      [] t = "status500" -> [outcome |-> "answered", status_code |-> 500, count |-> 0]
      [] OTHER -> [outcome |-> t, status_code |-> 0, count |-> 0]

(***************************************************************************)
(* POST /tasks                                                             *)
(***************************************************************************)
\* not data or not data.get('title') or not data.get('user_id')
InvalidTaskBody(data) ==
    \/ DOMAIN data = {}
    \/ "title" \notin DOMAIN data
    \/ data.title = ""
    \/ "user_id" \notin DOMAIN data
    \/ data.user_id = 0

\* mutant: only a 404 of the existence check is taken for a missing user
CreateStatus_Only404(data, peer) ==
    IF InvalidTaskBody(data) THEN 400
    ELSE IF Raised(peer) THEN 500
    ELSE IF peer.status_code = 404 THEN 400
    ELSE 201

\* mutant: a failed existence check is passed over and the task is created
CreateStatus_FailOpen(data, peer) ==
    IF InvalidTaskBody(data) THEN 400
    ELSE IF ~Raised(peer) /\ peer.status_code # 200 THEN 400
    ELSE 201

\* the status code create_task answers with, given the peer call's outcome
CreateStatus(data, peer) ==
    IF InvalidTaskBody(data) THEN 400
    ELSE IF Raised(peer) THEN 500
    ELSE IF peer.status_code # 200 THEN 400
    ELSE 201

CreateTask(data, t) ==
    LET peer == IF InvalidTaskBody(data) THEN NoCall
                ELSE VerifyUserCall(users, data.user_id, t)
        status == CreateStatus(data, peer)
        task == [id |-> NextId(rows), title |-> data.title, user_id |-> data.user_id]
    IN  /\ Idle
        /\ t # "timeout"      \* the call sets no deadline
        /\ status = 201 => Len(rows) < MaxTasks /\ NextId(rows) <= MaxId
        /\ rows' = IF status = 201 THEN Insert(rows, data.title, data.user_id) ELSE rows
        /\ maxIssued' = IF status = 201 /\ task.id > maxIssued THEN task.id ELSE maxIssued
        /\ resp' = [op |-> "create_task", req |-> data, peer |-> peer, status |-> status,
                    body |-> IF status = 201 THEN task
                             ELSE IF status = 500 THEN [error |-> "Error de conexion al verificar usuario"]
                             ELSE IF InvalidTaskBody(data) THEN [error |-> "Datos invalidos"]
                             ELSE [error |-> "ID de usuario invalido"]]
        /\ UNCHANGED users

(***************************************************************************)
(* GET /tasks                                                              *)
(***************************************************************************)
GetTasksBody(rs) == Serialize(rs)

GetTasks ==
    /\ Idle
    /\ resp' = [op |-> "get_tasks", req |-> EmptyBody, peer |-> NoCall, status |-> 200,
                body |-> GetTasksBody(rows)]
    /\ UNCHANGED <<rows, users, maxIssued>>

(***************************************************************************)
(* DELETE /tasks/<task_id>                                                 *)
(***************************************************************************)
\* mutant: the answer does not depend on the row being there
DeleteStatus_Always200(rs, task_id) == 200

DeleteStatus(rs, task_id) == IF HasRow(rs, task_id) THEN 200 ELSE 404

DeleteTask(task_id) ==
    /\ Idle
    /\ rows' = IF HasRow(rows, task_id) THEN Without(rows, {task_id}) ELSE rows
    /\ resp' = [op |-> "delete_task", req |-> [task_id |-> task_id], peer |-> NoCall,
                status |-> DeleteStatus(rows, task_id),
                body |-> IF HasRow(rows, task_id) THEN [message |-> "deleted"]
                         ELSE [error |-> "Task not found"]]
    /\ UNCHANGED <<users, maxIssued>>

(***************************************************************************)
(* DELETE /tasks/cleanup                                                   *)
(***************************************************************************)
CleanupTasks ==
    /\ Idle
    /\ rows' = <<>>
    /\ resp' = [op |-> "cleanup_tasks", req |-> EmptyBody, peer |-> NoCall, status |-> 200,
                body |-> [deleted |-> Len(rows)]]     \* num_deleted = Task.query.delete()
    /\ UNCHANGED <<users, maxIssued>>

(***************************************************************************)
(* DELETE /tasks/cleanup-specific                                          *)
(*                                                                         *)
(* The loop runs in one SQLAlchemy session.  Task.query.get(id) answers    *)
(* from the session's identity map when the object is there, without a     *)
(* query: an object marked by db.session.delete() stays in the map, and is *)
(* returned again, until the session is flushed.  A get() that misses the  *)
(* map emits a SELECT, before which the session autoflushes: the pending   *)
(* DELETEs are executed and the deleted objects leave the map.             *)
(*   table   : the rows as the session's transaction sees them             *)
(*   pending : ids of the objects marked deleted and not yet flushed       *)
(*   count   : deleted_count                                               *)
(***************************************************************************)
LoopStep(st, task_id) ==
    IF task_id \in st.pending
    THEN [st EXCEPT !.count = @ + 1]
    ELSE LET flushed == Without(st.table, st.pending)
         IN  IF HasRow(flushed, task_id)
             THEN [table |-> flushed, pending |-> {task_id}, count |-> st.count + 1]
             ELSE [table |-> flushed, pending |-> {}, count |-> st.count]

RECURSIVE CleanupLoop(_, _)
CleanupLoop(st, task_ids) ==
    IF task_ids = <<>> THEN st
    ELSE CleanupLoop(LoopStep(st, Head(task_ids)), Tail(task_ids))

\* the loop over task_ids followed by db.session.commit()
CleanupSpecific(rs, task_ids) ==
    LET st == CleanupLoop([table |-> rs, pending |-> {}, count |-> 0], task_ids)
    IN  [table |-> Without(st.table, st.pending), deleted_count |-> st.count]

InvalidCleanupBody(data) ==
    \/ DOMAIN data = {}
    \/ "task_ids" \notin DOMAIN data
    \/ data.task_ids.type # "list"

CleanupSpecificTasks(data) ==
    LET done == CleanupSpecific(rows, data.task_ids.val)
    IN  /\ Idle
        /\ rows' = IF InvalidCleanupBody(data) THEN rows ELSE done.table
        /\ resp' = [op |-> "cleanup_specific", req |-> data, peer |-> NoCall,
                    status |-> IF InvalidCleanupBody(data) THEN 400 ELSE 200,
                    body |-> IF InvalidCleanupBody(data)
                             THEN [error |-> "task_ids list is required"]
                             ELSE [deleted_count |-> done.deleted_count]]
        /\ UNCHANGED <<users, maxIssued>>

(***************************************************************************)
(* GET /tasks/stats                                                        *)
(***************************************************************************)
Front(s) == SubSeq(s, 1, Len(s) - 1)

\* Counter(task.user_id for task in all_tasks): the owners with their counts,
\* in the order in which the owners are first met in the rows
RECURSIVE UserTaskCounts(_)
UserTaskCounts(rs) ==
    IF rs = <<>> THEN <<>>
    ELSE LET c == UserTaskCounts(Front(rs))
             u == rs[Len(rs)].user_id
             at == {i \in DOMAIN c : c[i].user_id = u}
         IN  IF at = {}
             THEN Append(c, [user_id |-> u, task_count |-> 1])
             ELSE [i \in DOMAIN c |->
                      IF i \in at THEN [c[i] EXCEPT !.task_count = @ + 1] ELSE c[i]]

\* e put into a sequence sorted by descending count, behind its equals
InsertByCount(s, e) ==
    LET k == Cardinality({i \in DOMAIN s : s[i].task_count >= e.task_count})
    IN  SubSeq(s, 1, k) \o <<e>> \o SubSeq(s, k + 1, Len(s))

RECURSIVE SortedByCount(_)
SortedByCount(c) ==
    IF c = <<>> THEN <<>> ELSE InsertByCount(SortedByCount(Front(c)), c[Len(c)])

\* mutant: the first n owners met, not the n with the most rows
MostCommon_Unranked(c, n) == Take(c, n)

\* Counter.most_common(n) = sorted(items, key=count, reverse=True)[:n], stable
MostCommon(c, n) == Take(SortedByCount(c), n)

\* mutant: the first rows of the table, without the descending order
RecentTasks_Oldest(rs) == Take(rs, RecentLimit)

\* Task.query.order_by(Task.id.desc()).limit(5).all()
RecentTasks(rs) == Take(Reverse(rs), RecentLimit)

\* mutant: the quotient cut off after 2 decimals
Round2_Truncated(a, b) == (100 * a) \div b

\* round(a / b, 2), in hundredths.  a / b lies exactly half way between two
\* hundredths only when it is an odd multiple of 1/200; for b < 40 such a
\* quotient is a multiple of 1/8, which a float holds exactly, and round()
\* then rounds half to even.  Off the half way point the float's error is far
\* below the distance to it.
Round2(a, b) ==
    LET q == (100 * a) \div b
        r == (100 * a) % b
    IN  IF 2 * r < b THEN q
        ELSE IF 2 * r > b THEN q + 1
        ELSE IF q % 2 = 0 THEN q ELSE q + 1

\* mutant: the exception of the peer call is swallowed without a record
UserServiceStats_NoError(peer) ==
    [total_users |-> IF ~Raised(peer) /\ peer.status_code = 200 THEN peer.count ELSE 0,
     error |-> NoValue]

\* mutant: the user count of the peer's answer is not recorded
UserServiceStats_NoCount(peer) ==
    [total_users |-> 0,
     error |-> IF Raised(peer) THEN "User service unavailable" ELSE NoValue]

\* user_service_stats after the peer call
UserServiceStats(peer) ==
    [total_users |-> IF ~Raised(peer) /\ peer.status_code = 200 THEN peer.count ELSE 0,
     error |-> IF Raised(peer) THEN "User service unavailable" ELSE NoValue]

ProductivityMetrics(total_tasks, users_with_tasks, total_users) ==
    [avg_tasks_per_user |->
        IF total_users > 0 /\ total_tasks > 0 THEN Round2(total_tasks, total_users) ELSE 0,
     avg_tasks_per_active_user |->
        IF users_with_tasks > 0 THEN Round2(total_tasks, users_with_tasks) ELSE 0]

SystemStatus(user_service_stats) ==
    [status |-> IF user_service_stats.error = NoValue THEN "healthy" ELSE "partial",
     services |-> [task_service |-> "online",
                   user_service |-> IF user_service_stats.error = NoValue
                                    THEN "online" ELSE "offline"]]

\* the answer get_task_stats builds from what its three queries returned
\* (Task.query.count(), Task.query.all(), the order_by/limit query) and from
\* the peer call
StatsAnswer(total_tasks, all_tasks, recent_tasks, peer) ==
    LET user_task_counts == UserTaskCounts(all_tasks)
        users_with_tasks == Len(user_task_counts)
        user_service_stats == UserServiceStats(peer)
    IN  [op |-> "task_stats", req |-> EmptyBody, peer |-> peer, status |-> 200,
         body |-> [tasks |-> [total_tasks |-> total_tasks,
                              users_with_tasks |-> users_with_tasks,
                              recent_tasks |-> Serialize(recent_tasks),
                              top_productive_users |-> MostCommon(user_task_counts, TopLimit)],
                   users |-> user_service_stats,
                   productivity_metrics |->
                       ProductivityMetrics(total_tasks, users_with_tasks,
                                           user_service_stats.total_users),
                   system |-> SystemStatus(user_service_stats)]]

\* the answer of get_task_stats when no other request writes while it runs
\* and the peer call goes as t
TaskStats(rs, us, t) ==
    StatsAnswer(Len(rs), rs, RecentTasks(rs), UserCountCall(us, t))

GetTaskStats(t) ==
    /\ Idle
    /\ resp' = TaskStats(rows, users, t)
    /\ UNCHANGED <<rows, users, maxIssued>>

(***************************************************************************)
(* User service: the peer.  POST /users, DELETE /users/<id> and            *)
(* GET /users/stats, which mirrors get_task_stats with the roles reversed: *)
(* it counts its own users and asks the Task service's GET /tasks for the  *)
(* tasks.                                                                  *)
(***************************************************************************)
CreateUser(u) ==
    /\ Idle
    /\ u \notin users
    /\ users' = users \cup {u}
    /\ resp' = [op |-> "create_user", req |-> [id |-> u], peer |-> NoCall, status |-> 201,
                body |-> [id |-> u]]
    /\ UNCHANGED <<rows, maxIssued>>

DeleteUser(u) ==
    /\ Idle
    /\ u \in users
    /\ users' = users \ {u}
    /\ resp' = [op |-> "delete_user", req |-> [id |-> u], peer |-> NoCall, status |-> 200,
                body |-> [message |-> "deleted"]]
    /\ UNCHANGED <<rows, maxIssued>>

\* the User service's call of GET /tasks on the Task service
TaskCountCall(rs, t) ==
    CASE t = "answered" ->
            [outcome |-> t, status_code |-> 200, count |-> Len(GetTasksBody(rs))]
      [] t = "status500" -> [outcome |-> "answered", status_code |-> 500, count |-> 0]
      [] OTHER -> [outcome |-> t, status_code |-> 0, count |-> 0]

UserStats(rs, us, t) ==
    LET peer == TaskCountCall(rs, t)
        task_service_stats ==
            [total_tasks |-> IF ~Raised(peer) /\ peer.status_code = 200 THEN peer.count ELSE 0,
             error |-> IF Raised(peer) THEN "Task service unavailable" ELSE NoValue]
    IN  [op |-> "user_stats", req |-> EmptyBody, peer |-> peer, status |-> 200,
         body |-> [users |-> [total_users |-> Cardinality(us)],
                   tasks |-> task_service_stats,
                   system |-> [status |-> IF task_service_stats.error = NoValue
                                          THEN "healthy" ELSE "partial"]]]

GetUserStats(t) ==
    /\ Idle
    /\ resp' = UserStats(rows, users, t)
    /\ UNCHANGED <<rows, users, maxIssued>>

(***************************************************************************)
(* The integration test's cross-service check: GET /users/stats, then      *)
(* GET /tasks/stats, nothing written in between, and the three             *)
(* comparisons of the two answers.                                         *)
(***************************************************************************)
CrossServiceVerdict(user_stats, task_stats) ==
    /\ user_stats.status = 200
    /\ task_stats.status = 200
    /\ user_stats.body.users.total_users = task_stats.body.users.total_users
    /\ user_stats.body.tasks.total_tasks = task_stats.body.tasks.total_tasks
    /\ user_stats.body.system.status = "healthy"
    /\ task_stats.body.system.status = "healthy"

CrossServiceIntegration(tu, tt) ==
    LET user_stats == UserStats(rows, users, tu)
        task_stats == TaskStats(rows, users, tt)
    IN  /\ Idle
        /\ resp' = [op |-> "cross_service", req |-> EmptyBody, peer |-> NoCall,
                    status |-> 200,
                    body |-> [user_stats |-> user_stats, task_stats |-> task_stats,
                              passed |-> CrossServiceVerdict(user_stats, task_stats)]]
        /\ UNCHANGED <<rows, users, maxIssued>>

(***************************************************************************)
(* The system, one request at a time.                                      *)
(***************************************************************************)
\* no GET /tasks/stats, no POST /tasks is under way
NoStatsReq == [pc |-> "idle"]

NoCreateReq == [pc |-> "idle"]

\* the step belongs to a handler that runs from start to end
Quiet == UNCHANGED <<statsReq, createReq, seen>>

\* db.create_all() on a fresh instance directory: empty tables
Init ==
    /\ rows = <<>>
    /\ users = {}
    /\ maxIssued = 0
    /\ resp = NoRequest
    /\ statsReq = NoStatsReq
    /\ createReq = NoCreateReq
    /\ seen = {}

\* the client takes the answer; it sends its next request after that
Receive ==
    /\ resp # NoRequest
    /\ resp' = NoRequest
    /\ UNCHANGED <<rows, users, maxIssued>>

Next ==
    \/ \E data \in TaskBodies, t \in Transport : CreateTask(data, t) /\ Quiet
    \/ GetTasks /\ Quiet
    \/ \E task_id \in TaskIds : DeleteTask(task_id) /\ Quiet
    \/ CleanupTasks /\ Quiet
    \/ \E data \in CleanupBodies : CleanupSpecificTasks(data) /\ Quiet
    \/ \E t \in Transport : GetTaskStats(t) /\ Quiet
    \/ \E u \in UserIds : CreateUser(u) /\ Quiet
    \/ \E u \in UserIds : DeleteUser(u) /\ Quiet
    \/ \E t \in Transport : GetUserStats(t) /\ Quiet
    \/ \E tu \in Transport, tt \in Transport : CrossServiceIntegration(tu, tt) /\ Quiet
    \/ Receive /\ Quiet

Spec == Init /\ [][Next]_vars

TypeOK ==
    /\ Len(rows) <= MaxTasks
    /\ \A i \in DOMAIN rows : rows[i].id \in TaskIds /\ rows[i].user_id \in UserIds
    /\ \A i \in DOMAIN rows : \A j \in DOMAIN rows : i < j => rows[i].id < rows[j].id
    /\ users \subseteq UserIds
    /\ maxIssued \in 0..MaxId

(***************************************************************************)
(* Properties.                                                             *)
(***************************************************************************)
Answered200(peer) == peer.outcome = "answered" /\ peer.status_code = 200

AnsweredOther(peer) == peer.outcome = "answered" /\ peer.status_code # 200

\* C1: when the call to the User service made by GET /tasks/stats fails with
\* a connection error or a timeout, the answer is still 200, with
\* system.status "partial", users.error set and users.total_users 0,
\* whatever the task table holds.
C1_PeerFailureAbsorbed ==
    (resp.op = "task_stats" /\ Raised(resp.peer)) =>
        /\ resp.status = 200
        /\ resp.body.system.status = "partial"
        /\ resp.body.users.error # NoValue
        /\ resp.body.users.total_users = 0

C1_Witness ==
    /\ resp.op = "task_stats"
    /\ resp.peer.outcome = "timeout"
    /\ resp.status = 200
    /\ resp.body.system.status = "partial"
    /\ Len(rows) > 1
    /\ users # {}

\* C2: in every answer of GET /tasks/stats, system.status is "healthy" exactly
\* when the User service answered 200 and its user count was recorded; for a
\* connection error, a timeout or an answer other than 200 it is "partial"
\* and users.error is set.
C2_HealthyIffPeerSucceeded ==
    resp.op = "task_stats" =>
        IF Answered200(resp.peer)
        THEN resp.body.system.status = "healthy"
        ELSE resp.body.system.status = "partial" /\ resp.body.users.error # NoValue

\* C3: POST /tasks whose existence check is answered with anything other than
\* 200 returns 400 and leaves the task table as it was.
C3_UnknownUserRejected ==
    [][(resp'.op = "create_task" /\ AnsweredOther(resp'.peer)) =>
          (resp'.status = 400 /\ rows' = rows)]_vars

C3_Witness ==
    /\ resp.op = "create_task"
    /\ resp.peer.outcome = "answered"
    /\ resp.peer.status_code = 404
    /\ resp.status = 400
    /\ users # {}

\* C4: POST /tasks with a well-formed body, when the User service cannot be
\* reached for the existence check, returns 500 and inserts no task.
C4_PeerDownFailsCreate ==
    [][(resp'.op = "create_task" /\ ~InvalidTaskBody(resp'.req) /\ Raised(resp'.peer)) =>
          (resp'.status = 500 /\ rows' = rows)]_vars

C4_Witness ==
    /\ resp.op = "create_task"
    /\ resp.peer.outcome = "conn_error"
    /\ resp.status = 500
    /\ resp.req.user_id \in users

\* C5: every successful POST /tasks returns an id strictly greater than the
\* id returned by every earlier successful POST /tasks, whatever was deleted
\* in between.
C5_IdsStrictlyIncrease ==
    [][(resp'.op = "create_task" /\ resp'.status = 201) =>
          resp'.body.id > maxIssued]_vars

\* C6: DELETE /tasks/cleanup-specific with a list of ids removes exactly the
\* rows whose id is in the list, leaves the other rows as they were, and
\* reports as deleted count the number of rows removed.
C6_CleanupSpecificExact ==
    [][(resp'.op = "cleanup_specific" /\ resp'.status = 200) =>
          /\ rows' = SelectSeq(rows, LAMBDA r : r.id \notin Range(resp'.req.task_ids.val))
          /\ resp'.body.deleted_count = Len(rows) - Len(rows')]_vars

\* C7: DELETE /tasks/<id> returns 200 and removes exactly the row with that
\* id when there is one; otherwise it returns 404 and leaves the table as it
\* was.  After either, no row has the id.
C7_DeleteById ==
    [][resp'.op = "delete_task" =>
          /\ resp'.req.task_id \notin RowIds(rows')
          /\ IF resp'.req.task_id \in RowIds(rows)
             THEN /\ resp'.status = 200
                  /\ rows' = SelectSeq(rows, LAMBDA r : r.id # resp'.req.task_id)
             ELSE /\ resp'.status = 404
                  /\ rows' = rows]_vars

C7_Witness ==
    /\ resp.op = "delete_task"
    /\ resp.status = 404
    /\ resp.req.task_id <= maxIssued
    /\ rows # <<>>

\* the place of owner u's first row
FirstIndex(rs, u) ==
    CHOOSE i \in DOMAIN rs :
        rs[i].user_id = u /\ \A j \in 1..(i - 1) : rs[j].user_id # u

\* C8: top_productive_users has at most 3 entries, of distinct owners; each
\* task_count is the number of rows of that owner; the counts do not
\* increase; no owner left out has more rows than a listed one; owners with
\* equal counts stand in the order in which their first rows are met; an owner
\* with more rows than every other owner is entry 0.
C8_TopProductiveUsers ==
    resp.op = "task_stats" =>
        LET top == resp.body.tasks.top_productive_users
            listed == {top[i].user_id : i \in DOMAIN top}
        IN  /\ Len(top) = Min(TopLimit, Cardinality(Owners(rows)))
            /\ listed \subseteq Owners(rows)
            /\ \A i \in DOMAIN top : top[i].task_count = OwnedBy(rows, top[i].user_id)
            /\ \A i \in DOMAIN top : \A j \in DOMAIN top :
                  i < j =>
                     /\ top[i].user_id # top[j].user_id
                     /\ top[i].task_count >= top[j].task_count
                     /\ top[i].task_count = top[j].task_count =>
                           FirstIndex(rows, top[i].user_id) < FirstIndex(rows, top[j].user_id)
            /\ \A u \in Owners(rows) \ listed : \A i \in DOMAIN top :
                  /\ OwnedBy(rows, u) <= top[i].task_count
                  /\ OwnedBy(rows, u) = top[i].task_count =>
                        FirstIndex(rows, top[i].user_id) < FirstIndex(rows, u)
            /\ \A u \in Owners(rows) :
                  (\A v \in Owners(rows) \ {u} : OwnedBy(rows, v) < OwnedBy(rows, u)) =>
                      top[1] = [user_id |-> u, task_count |-> OwnedBy(rows, u)]

C8_Witness ==
    /\ resp.op = "task_stats"
    /\ Cardinality(Owners(rows)) > TopLimit
    /\ Len(resp.body.tasks.top_productive_users) = TopLimit
    /\ rows[1].user_id > rows[2].user_id

Abs(x) == IF x < 0 THEN -x ELSE x

\* h hundredths is a / b rounded to 2 decimals
IsRounded(h, a, b) == 2 * Abs(h * b - 100 * a) <= b

\* C9: avg_tasks_per_user is total_tasks / users.total_users rounded to 2
\* decimals, 0 when users.total_users is 0; avg_tasks_per_active_user is
\* total_tasks / users_with_tasks rounded to 2 decimals, 0 when
\* users_with_tasks is 0; the counts are those of the table as it is.
C9_ProductivityMetrics ==
    resp.op = "task_stats" =>
        LET total_tasks == resp.body.tasks.total_tasks
            users_with_tasks == resp.body.tasks.users_with_tasks
            total_users == resp.body.users.total_users
            m == resp.body.productivity_metrics
        IN  /\ total_tasks = Len(rows)
            /\ users_with_tasks = Cardinality(Owners(rows))
            /\ IF total_users = 0 THEN m.avg_tasks_per_user = 0
               ELSE IsRounded(m.avg_tasks_per_user, total_tasks, total_users)
            /\ IF users_with_tasks = 0 THEN m.avg_tasks_per_active_user = 0
               ELSE IsRounded(m.avg_tasks_per_active_user, total_tasks, users_with_tasks)

C9_Witness ==
    /\ resp.op = "task_stats"
    /\ resp.body.tasks.total_tasks = 2
    /\ resp.body.users.total_users = 3
    /\ resp.body.productivity_metrics.avg_tasks_per_user = 67
    /\ resp.body.productivity_metrics.avg_tasks_per_active_user = 200

\* C10: GET /users/stats and GET /tasks/stats made with no write in between
\* and both peer calls answered 200 agree: the same tasks.total_tasks, the
\* number of rows; the same users.total_users, the number of users; and both
\* report "healthy".
C10_CrossServiceAgreement ==
    (/\ resp.op = "cross_service"
     /\ Answered200(resp.body.user_stats.peer)
     /\ Answered200(resp.body.task_stats.peer)) =>
        LET user_stats == resp.body.user_stats.body
            task_stats == resp.body.task_stats.body
        IN  /\ user_stats.tasks.total_tasks = task_stats.tasks.total_tasks
            /\ task_stats.tasks.total_tasks = Len(rows)
            /\ user_stats.users.total_users = task_stats.users.total_users
            /\ user_stats.users.total_users = Cardinality(users)
            /\ user_stats.system.status = "healthy"
            /\ task_stats.system.status = "healthy"
            /\ resp.body.passed

C10_Witness ==
    /\ resp.op = "cross_service"
    /\ Answered200(resp.body.user_stats.peer)
    /\ Answered200(resp.body.task_stats.peer)
    /\ resp.body.passed
    /\ resp.body.task_stats.body.tasks.total_tasks = 3
    /\ resp.body.user_stats.body.users.total_users = 2

(***************************************************************************)
(* POST /tasks with titles of every length class.  Task.title is declared  *)
(* db.String(100); create_task does not look at the length, and SQLite     *)
(* stores a VARCHAR(100) value of any length.                              *)
(***************************************************************************)
TitleLimit == 100

\* a title of TitleLimit + 1 characters
LongTitle ==
    "ttttttttttttttttttttttttttttttttttttttttttttttttttttttttttttttttttttttttttttttttttttttttttttttttttttt"

Titles == {"", ValidTitle, LongTitle}

TitleBodies ==
    {EmptyBody}
        \cup [title : Titles]
        \cup [user_id : {1}]
        \cup [title : Titles, user_id : {0, 1}]

NextTitles ==
    \/ \E data \in TitleBodies, t \in Transport : CreateTask(data, t) /\ Quiet
    \/ \E task_id \in TaskIds : DeleteTask(task_id) /\ Quiet
    \/ CreateUser(1) /\ Quiet
    \/ DeleteUser(1) /\ Quiet
    \/ Receive /\ Quiet

SpecTitles == Init /\ [][NextTitles]_vars

\* the bodies the claim wants answered with 400
RejectedBody(data) ==
    \/ DOMAIN data = {}
    \/ "title" \notin DOMAIN data
    \/ data.title = ""
    \/ Len(data.title) > TitleLimit
    \/ "user_id" \notin DOMAIN data

\* C14: every stored task has a non-empty title of at most 100 characters and
\* an owner id; POST /tasks with no body, with a missing, empty or too long
\* title, or with no user_id is answered 400 without a call to the User
\* service.
C14_StoredTasksValid ==
    /\ \A i \in DOMAIN rows :
          /\ rows[i].title # ""
          /\ Len(rows[i].title) <= TitleLimit
          /\ rows[i].user_id \in UserIds
    /\ (resp.op = "create_task" /\ RejectedBody(resp.req)) =>
          (resp.status = 400 /\ resp.peer = NoCall)

(***************************************************************************)
(* GET /tasks/stats over tables of more than RecentLimit rows.  The        *)
(* tables are those POST /tasks and DELETE /tasks/<id> leave behind: rows  *)
(* of one owner with ascending ids.                                        *)
(***************************************************************************)
MaxRecentRows == 6    \* rows in the table
MaxRecentId == 7      \* largest id in the table

\* the table holding the ids of ids, in ascending order
RECURSIVE TableOf(_)
TableOf(ids) ==
    IF ids = {} THEN <<>>
    ELSE LET top == CHOOSE i \in ids : \A j \in ids : j <= i
         IN  Append(TableOf(ids \ {top}), [id |-> top, title |-> ValidTitle, user_id |-> 1])

InitRecent ==
    /\ \E ids \in SUBSET (1..MaxRecentId) :
          /\ Cardinality(ids) <= MaxRecentRows
          /\ rows = TableOf(ids)
    /\ users \in {{}, {1}}
    /\ maxIssued = IF rows = <<>> THEN 0 ELSE rows[Len(rows)].id
    /\ resp = NoRequest
    /\ statsReq = NoStatsReq
    /\ createReq = NoCreateReq
    /\ seen = {}

NextRecent ==
    \/ \E t \in Transport : GetTaskStats(t) /\ Quiet
    \/ \E task_id \in 1..MaxRecentId : DeleteTask(task_id) /\ Quiet
    \/ Receive /\ Quiet

SpecRecent == InitRecent /\ [][NextRecent]_vars

\* C15: recent_tasks holds min(5, number of rows) tasks; they are rows of the
\* table, every row left out has a smaller id than each of them, and they
\* stand in strictly descending order of id.
C15_RecentTasks ==
    resp.op = "task_stats" =>
        LET recent == resp.body.tasks.recent_tasks
            stored == Range(Serialize(rows))
        IN  /\ Len(recent) = Min(RecentLimit, Len(rows))
            /\ \A i \in DOMAIN recent : recent[i] \in stored
            /\ \A i \in DOMAIN recent : \A j \in DOMAIN recent :
                  i < j => recent[i].id > recent[j].id
            /\ \A r \in stored \ Range(recent) : \A i \in DOMAIN recent :
                  r.id < recent[i].id

C15_Witness ==
    /\ resp.op = "task_stats"
    /\ Len(rows) > RecentLimit
    /\ Len(resp.body.tasks.recent_tasks) = RecentLimit
    /\ resp.body.tasks.recent_tasks[1].id = rows[Len(rows)].id

(***************************************************************************)
(* Requests that overlap.  The server handles requests in threads of their *)
(* own, so between two statements of a handler that touch the database or  *)
(* the peer, other requests run.  Each query of a handler is a transaction *)
(* of its own: the sqlite3 driver opens a transaction only before a        *)
(* writing statement, so a SELECT sees whatever is committed at that time. *)
(*                                                                         *)
(* One GET /tasks/stats and one POST /tasks are followed statement by      *)
(* statement (statsReq, createReq); the other requests stay single steps.  *)
(***************************************************************************)
MaxConcUser == 2      \* the users of the overlapping requests are 1..MaxConcUser
MaxWrites == 2        \* tables that come up while one GET /tasks/stats runs
MaxConcTasks == 2     \* rows in the task table
MaxConcId == 3        \* largest task id handed out

ConcUserIds == 1..MaxConcUser

ConcBodies == {EmptyBody} \cup [title : {ValidTitle}, user_id : ConcUserIds]

\* what the peer does with a call: it answers, or the connection fails
PeerReplies == {"answered", "status500", "conn_error"}

\* history: a table written while a GET /tasks/stats runs is one of the
\* tables of that request
Track ==
    /\ seen' = IF statsReq.pc = "idle" THEN seen ELSE seen \cup {rows'}
    /\ Cardinality(seen') <= MaxWrites + 1

\* total_tasks = Task.query.count()
StatsCount ==
    /\ Idle
    /\ statsReq.pc = "idle"
    /\ statsReq' = [pc |-> "counted", total_tasks |-> Len(rows)]
    /\ seen' = {rows}
    /\ UNCHANGED <<rows, users, maxIssued, resp, createReq>>

\* all_tasks = Task.query.all()
StatsAll ==
    /\ statsReq.pc = "counted"
    /\ statsReq' = [pc |-> "listed", total_tasks |-> statsReq.total_tasks,
                    all_tasks |-> rows]
    /\ UNCHANGED <<rows, users, maxIssued, resp, createReq, seen>>

\* recent_tasks = Task.query.order_by(Task.id.desc()).limit(5).all(), and
\* the call of GET /users goes out
StatsRecent ==
    /\ statsReq.pc = "listed"
    /\ statsReq' = [pc |-> "calling", total_tasks |-> statsReq.total_tasks,
                    all_tasks |-> statsReq.all_tasks,
                    recent_tasks |-> RecentTasks(rows)]
    /\ UNCHANGED <<rows, users, maxIssued, resp, createReq, seen>>

\* the rest of get_task_stats, once the peer call has ended as t
StatsFinish(t) ==
    /\ Idle
    /\ statsReq.pc = "calling"
    /\ resp' = StatsAnswer(statsReq.total_tasks, statsReq.all_tasks,
                           statsReq.recent_tasks, UserCountCall(users, t))
    /\ statsReq' = NoStatsReq
    /\ UNCHANGED <<rows, users, maxIssued, createReq, seen>>

\* the User service answers GET /users, or the connection fails
StatsPeerReplies(t) == StatsFinish(t)

\* requests.get(..., timeout=2): the deadline passes without an answer
StatsDeadline == StatsFinish("timeout")

\* create_task up to the call of GET /users/<id>; a body that fails the
\* validation is answered at once
CreateAccept(data) ==
    /\ Idle
    /\ createReq.pc = "idle"
    /\ Len(rows) < MaxConcTasks
    /\ NextId(rows) <= MaxConcId
    /\ IF InvalidTaskBody(data)
       THEN /\ resp' = [op |-> "create_task", req |-> data, peer |-> NoCall,
                        status |-> CreateStatus(data, NoCall),
                        body |-> [error |-> "Datos invalidos"]]
            /\ createReq' = createReq
       ELSE /\ resp' = resp
            /\ createReq' = [pc |-> "calling", data |-> data]
    /\ UNCHANGED <<rows, users, maxIssued, statsReq, seen>>

\* the User service answers GET /users/<id> from its table as it is now, or
\* the connection fails.  The call sets no timeout: nothing else ends it.
CreatePeerReplies(t) ==
    /\ createReq.pc = "calling"
    /\ createReq' = [pc |-> "replied", data |-> createReq.data,
                     peer |-> VerifyUserCall(users, createReq.data.user_id, t)]
    /\ UNCHANGED <<rows, users, maxIssued, resp, statsReq, seen>>

\* the rest of create_task: the answer for a failed check, or the insert
CreateFinish ==
    LET data == createReq.data
        status == CreateStatus(data, createReq.peer)
        task == [id |-> NextId(rows), title |-> data.title, user_id |-> data.user_id]
    IN  /\ Idle
        /\ createReq.pc = "replied"
        /\ rows' = IF status = 201 THEN Insert(rows, data.title, data.user_id) ELSE rows
        /\ maxIssued' = IF status = 201 /\ task.id > maxIssued THEN task.id ELSE maxIssued
        /\ resp' = [op |-> "create_task", req |-> data, peer |-> createReq.peer,
                    status |-> status,
                    body |-> IF status = 201 THEN task
                             ELSE IF status = 500 THEN [error |-> "Error de conexion al verificar usuario"]
                             ELSE [error |-> "ID de usuario invalido"]]
        /\ createReq' = NoCreateReq
        /\ Track
        /\ UNCHANGED <<users, statsReq>>

\* a request handled in one step while the two others are under way
Meanwhile == Track /\ UNCHANGED <<statsReq, createReq>>

\* the client takes an answer; the history of an answered request is dropped
ReceiveConc ==
    /\ Receive
    /\ seen' = IF statsReq.pc = "idle" THEN {} ELSE seen
    /\ UNCHANGED <<statsReq, createReq>>

NextConc ==
    \/ StatsCount
    \/ StatsAll
    \/ StatsRecent
    \/ \E t \in PeerReplies : StatsPeerReplies(t)
    \/ StatsDeadline
    \/ \E data \in ConcBodies : CreateAccept(data)
    \/ \E t \in PeerReplies : CreatePeerReplies(t)
    \/ CreateFinish
    \/ \E task_id \in 1..MaxConcId : DeleteTask(task_id) /\ Meanwhile
    \/ \E u \in ConcUserIds : CreateUser(u) /\ Meanwhile
    \/ \E u \in ConcUserIds : DeleteUser(u) /\ Meanwhile
    \/ ReceiveConc

SpecConc == Init /\ [][NextConc]_vars

RECURSIVE SumCounts(_)
SumCounts(c) == IF c = <<>> THEN 0 ELSE c[1].task_count + SumCounts(Tail(c))

\* the answer's task figures describe the table T
DescribesTable(tasks, T) ==
    /\ tasks.total_tasks = Len(T)
    /\ tasks.users_with_tasks = Cardinality(Owners(T))
    /\ tasks.users_with_tasks <= TopLimit =>
          SumCounts(tasks.top_productive_users) = tasks.total_tasks
    /\ \A i \in DOMAIN tasks.recent_tasks : tasks.recent_tasks[i] \in Range(Serialize(T))

\* C11: every answer of GET /tasks/stats describes one table that there was
\* while the request ran, also when other requests write in between:
\* total_tasks is its number of rows, users_with_tasks its number of owners,
\* the owners' task_counts add up to total_tasks, and every task of
\* recent_tasks is one of its rows.
C11_SnapshotOfOneTable ==
    resp.op = "task_stats" => \E T \in seen : DescribesTable(resp.body.tasks, T)

\* C13: when POST /tasks inserts a task, the User service holds a user with
\* the task's user_id at that moment, also when users are deleted between
\* the existence check and the insert.
C13_OwnerExistsAtInsert ==
    [][Len(rows') > Len(rows) => rows'[Len(rows')].user_id \in users]_vars

(***************************************************************************)
(* Progress.  A handler's thread keeps running: it takes its next step     *)
(* when it can, and the steps that leave an answer get their turn however  *)
(* often other answers are under way.  The client takes every answer.  The *)
(* peer owes nothing: no fairness makes it answer a call.                  *)
(***************************************************************************)
FairConc ==
    /\ SpecConc
    /\ WF_vars(StatsAll)
    /\ WF_vars(StatsRecent)
    /\ SF_vars(StatsDeadline)
    /\ SF_vars(CreateFinish)
    /\ WF_vars(ReceiveConc)

StatsAnswered == (statsReq.pc # "idle") ~> (statsReq.pc = "idle")

CreateAnswered == (createReq.pc # "idle") ~> (createReq.pc = "idle")

\* C12: every accepted POST /tasks and every accepted GET /tasks/stats is
\* answered in the end, also when the User service takes the call and never
\* answers it.
C12_EveryRequestAnswered == StatsAnswered /\ CreateAnswered
=============================================================================
